---- MODULE Spec2Model ----
(***************************************************************************)
(* Model of render_api.py: the job registry (jobs_status), the in-flight   *)
(* counter (active_jobs), the POST /render, GET /status and GET /jobs      *)
(* handlers, and the background job body process_render_job with the       *)
(* downloader and the encoder invoker it calls.                            *)
(*                                                                         *)
(* Execution model: uvicorn.run(app) starts one process with one asyncio   *)
(* event loop.  Handlers and job bodies are coroutines on that loop, so a  *)
(* coroutine runs without interleaving from one suspension point to the    *)
(* next.  A call that does not suspend (requests.get inside                *)
(* download_file_async) keeps the loop's thread: `running` names the task  *)
(* that holds the thread across such a call, and no other coroutine can    *)
(* take a step until it lets go.  A handler's return value is kept in      *)
(* `resp` until the framework has sent it; a background task is started    *)
(* only after the response of its submission was sent.                     *)
(***************************************************************************)
EXTENDS Integers, Sequences, FiniteSets, TLC

\* ------------------------------------------------------------------------
\* Configuration and bounds
\* ------------------------------------------------------------------------

\* MAX_CONCURRENT_JOBS = int(os.getenv('MAX_CONCURRENT_JOBS', '2'))
MAX_CONCURRENT_JOBS == 2

\* Bound: number of submissions that are accepted in one run.
MaxTasks == 3

\* Bound: number of distinct values str(uuid.uuid4())[:8] can take.
NumIds == 2
MaxHttpTasks == 2
MaxQualityTasks == 1
MaxFairTasks == 2

JobIds == 1..NumIds

\* No task holds the event loop's thread.
Idle == 0

\* An absent dict key / an unbound local, and a present value.
None == <<>>
Some(v) == <<v>>

VARIABLES
    jobs_status,   \* dict job_id -> record (a function on the keys present)
    active_jobs,   \* the in-flight counter
    tasks,         \* background tasks in order of admission: locals + position
    running,       \* task holding the event loop's thread, or Idle
    temp_files,    \* files present in TEMP_DIR
    resp           \* response a handler has returned and the framework is sending

vars == <<jobs_status, active_jobs, tasks, running, temp_files, resp>>

\* ------------------------------------------------------------------------
\* Values
\* ------------------------------------------------------------------------

\* A response: the route it answers, the {job_id} path parameter of the
\* request (0 when the route has none), the status code and the body.
NoResp == [op |-> "none", job_id |-> 0, code |-> 0, body |-> <<>>]

FileTypes == {"video", "audio"}

\* str(uuid.uuid4())[:8]: the first 8 hex digits of a random UUID.  Nothing
\* relates the value to the keys already in jobs_status.
uuid4_prefix == JobIds

\* The quality field of a request body: absent, one of the three tiers, or
\* any other string (the field is a plain str).
QualityFields == {None, Some("high"), Some("medium"), Some("low"), Some("ultra")}

\* Variant: the model's default tier is medium.
RenderRequest_DefaultMedium(quality_field) ==
    [quality |-> IF quality_field = None THEN "medium" ELSE quality_field[1],
     fields_set |-> IF quality_field = None THEN {} ELSE {"quality"}]

\* class RenderRequest(BaseModel): quality: str = "high".  The model object
\* built from a body: a missing field takes the declared default, and the
\* object keeps the names of the fields the body did give.
RenderRequest(quality_field) ==
    [quality |-> IF quality_field = None THEN "high" ELSE quality_field[1],
     fields_set |-> IF quality_field = None THEN {} ELSE {"quality"}]

\* quality_settings of render_video
quality_settings ==
    [high |-> <<"-crf", "18", "-preset", "medium">>,
     medium |-> <<"-crf", "23", "-preset", "fast">>,
     low |-> <<"-crf", "28", "-preset", "ultrafast">>]

\* The part of cmd that depends on the request:
\* *quality_settings.get(quality, quality_settings["medium"])
EncoderArgs(quality) ==
    IF quality \in DOMAIN quality_settings
    THEN quality_settings[quality]
    ELSE quality_settings["medium"]

\* The dict literal stored at jobs_status[job_id] on submission.  The keys
\* completed_at, output_file and error are absent from it.
NewRecord(job_id, request) ==
    [job_id |-> job_id,
     quality |-> request.quality,
     status |-> "pending",
     progress |-> 0,
     message |-> "Job queued for processing",
     created_at |-> "now",
     completed_at |-> None,
     output_file |-> None,
     error |-> None]

\* Locals of one process_render_job call and its position in the body.
NewTask(job_id, request) ==
    [job_id |-> job_id, request |-> Some(request), pc |-> "scheduled",
     video_path |-> None, audio_path |-> None, cmd |-> None,
     returncode |-> None, output_exists |-> None]

\* The call has returned: its locals are gone.
Returned(task) ==
    [job_id |-> 0, request |-> None, pc |-> "done",
     video_path |-> None, audio_path |-> None, cmd |-> None,
     returncode |-> None, output_exists |-> None]

\* TEMP_DIR / f"{job_id}_{file_type}{extension}"
TempPath(job_id, file_type) == <<job_id, file_type>>

\* OUTPUT_DIR / f"render_{job_id}.mp4", and its .name
OutputName(job_id) == <<"render_", job_id, ".mp4">>

\* jobs_status[job_id] = rec
Put(d, k, rec) == [x \in (DOMAIN d) \cup {k} |-> IF x = k THEN rec ELSE d[x]]

TaskIds == 1..Len(tasks)

\* ------------------------------------------------------------------------
\* Initial state: module-level globals of render_api.py
\* ------------------------------------------------------------------------

Init ==
    /\ jobs_status = <<>>
    /\ active_jobs = 0
    /\ tasks = <<>>
    /\ running = Idle
    /\ temp_files = {}
    /\ resp = NoResp

\* ------------------------------------------------------------------------
\* HTTP surface
\* ------------------------------------------------------------------------

\* The event loop can start or resume a coroutine: no task holds its thread
\* and the response of the handler that ran last has been sent.
LoopFree == running = Idle /\ resp = NoResp

\* The framework sends the value the handler returned (or the HTTPException
\* it raised) to the client.
send_response ==
    /\ resp # NoResp
    /\ resp' = NoResp
    /\ UNCHANGED <<jobs_status, active_jobs, tasks, running, temp_files>>

\* Variants of the admission check: an off-by-one comparison, and a
\* comparison against a limit one too high.
AtCapacity_OffByOne(n) == n > MAX_CONCURRENT_JOBS
AtCapacity_Late(n) == n > MAX_CONCURRENT_JOBS + 1

\* if active_jobs >= MAX_CONCURRENT_JOBS
AtCapacity(n) == n >= MAX_CONCURRENT_JOBS

\* Variant: the increment is lost.
Admit_Lost(n) == n

\* active_jobs += 1
Admit(n) == n + 1

\* POST /render.  The handler has no await: it is one step of the event
\* loop.  Accepted submissions are bounded by MaxTasks.
create_render_job(quality_field) ==
    /\ LoopFree
    /\ AtCapacity(active_jobs) \/ Len(tasks) < MaxTasks
    /\ IF AtCapacity(active_jobs)
       THEN /\ resp' = [op |-> "render", job_id |-> 0, code |-> 429, body |-> <<>>]
            /\ UNCHANGED <<jobs_status, active_jobs, tasks>>
       ELSE \E job_id \in uuid4_prefix :
            /\ jobs_status' = Put(jobs_status, job_id,
                                   NewRecord(job_id, RenderRequest(quality_field)))
            /\ tasks' = Append(tasks, NewTask(job_id, RenderRequest(quality_field)))
            /\ active_jobs' = Admit(active_jobs)
            /\ resp' = [op |-> "render", job_id |-> 0, code |-> 200,
                        body |-> <<job_id, "pending", "Job created successfully">>]
    /\ UNCHANGED <<running, temp_files>>

\* A lookup that registers the identifier it did not find.
get_job_status_Creates(job_id) ==
    /\ LoopFree
    /\ resp' = IF job_id \notin DOMAIN jobs_status
               THEN [op |-> "status", job_id |-> job_id, code |-> 404, body |-> <<>>]
               ELSE [op |-> "status", job_id |-> job_id, code |-> 200,
                     body |-> <<jobs_status[job_id]>>]
    /\ jobs_status' = IF job_id \notin DOMAIN jobs_status
                      THEN Put(jobs_status, job_id, NewRecord(job_id, RenderRequest(None)))
                      ELSE jobs_status
    /\ UNCHANGED <<active_jobs, tasks, running, temp_files>>

\* GET /status/{job_id}
get_job_status(job_id) ==
    /\ LoopFree
    /\ resp' = IF job_id \notin DOMAIN jobs_status
               THEN [op |-> "status", job_id |-> job_id, code |-> 404, body |-> <<>>]
               ELSE [op |-> "status", job_id |-> job_id, code |-> 200,
                     body |-> <<jobs_status[job_id]>>]
    /\ UNCHANGED <<jobs_status, active_jobs, tasks, running, temp_files>>

\* GET /jobs
list_jobs ==
    /\ LoopFree
    /\ resp' = [op |-> "list", job_id |-> 0, code |-> 200,
                body |-> <<Cardinality(DOMAIN jobs_status), active_jobs, jobs_status>>]
    /\ UNCHANGED <<jobs_status, active_jobs, tasks, running, temp_files>>

\* ------------------------------------------------------------------------
\* Job body
\* ------------------------------------------------------------------------

\* Variant: the decrement is lost.
Release_Lost(n) == n

\* finally: active_jobs -= 1
Release(n) == n - 1

\* except Exception as e: jobs_status[job_id].update({...failed...})
FailedRecord(rec, error_msg) ==
    [rec EXCEPT !.status = "failed",
                !.message = "Rendering failed: " \o error_msg,
                !.error = Some(error_msg),
                !.completed_at = Some("now")]

\* jobs_status[job_id].update({...completed...})
CompletedRecord(rec, output_name) ==
    [rec EXCEPT !.status = "completed",
                !.progress = 100,
                !.message = "Rendering completed successfully",
                !.completed_at = Some("now"),
                !.output_file = Some(output_name)]

\* Variants of the except clause: the failed job is put back to be run again,
\* and the failure is written to every record of the registry.
JobFails_Retry(t, error_msg) ==
    /\ jobs_status' = [jobs_status EXCEPT ![tasks[t].job_id] = FailedRecord(@, error_msg)]
    /\ active_jobs' = active_jobs
    /\ tasks' = [tasks EXCEPT ![t] = NewTask(@.job_id, @.request[1])]
    /\ running' = Idle

JobFails_AllRecords(t, error_msg) ==
    /\ jobs_status' = [k \in DOMAIN jobs_status |-> FailedRecord(jobs_status[k], error_msg)]
    /\ active_jobs' = Release(active_jobs)
    /\ tasks' = [tasks EXCEPT ![t] = Returned(@)]
    /\ running' = Idle

\* The except and finally clauses of process_render_job, run by task t after
\* a step raised error_msg.  No suspension point lies between them.
JobFails(t, error_msg) ==
    /\ jobs_status' = [jobs_status EXCEPT ![tasks[t].job_id] = FailedRecord(@, error_msg)]
    /\ active_jobs' = Release(active_jobs)
    /\ tasks' = [tasks EXCEPT ![t] = Returned(@)]
    /\ running' = Idle

\* The background task starts: the first three assignments of the body, then
\* the call of download_file_async up to requests.get, which does not suspend.
process_render_job(t) ==
    /\ tasks[t].pc = "scheduled"
    /\ LoopFree
    /\ jobs_status' = [jobs_status EXCEPT ![tasks[t].job_id] =
                          [@ EXCEPT !.status = "processing",
                                    !.message = "Starting download",
                                    !.progress = 10]]
    /\ tasks' = [tasks EXCEPT ![t].pc = "get_video"]
    /\ running' = t
    /\ UNCHANGED <<active_jobs, temp_files, resp>>

\* Position of a task inside download_file_async(url, job_id, file_type):
\* in requests.get, or suspended in the aiofiles open/write/close.
GetPc(file_type) == IF file_type = "video" THEN "get_video" ELSE "get_audio"
WritePc(file_type) == IF file_type = "video" THEN "write_video" ELSE "write_audio"

\* raise Exception(f"Failed to download {file_type}: {str(e)}")
DownloadError(file_type) == "Failed to download " \o file_type \o ": e"

\* requests.get(str(url), stream=True, timeout=60); raise_for_status().
\* requests is a synchronous client: the call returns or raises without
\* suspending the coroutine, so task t has held the loop's thread since the
\* step that made the call.  On success the coroutine reaches aiofiles.open
\* and suspends; on failure the exception travels to the except clause of
\* process_render_job.
download_file_async_get(t, file_type) ==
    /\ tasks[t].pc = GetPc(file_type)
    /\ running = t
    /\ \E ok \in BOOLEAN :
        IF ok
        THEN /\ tasks' = [tasks EXCEPT ![t].pc = WritePc(file_type)]
             /\ running' = Idle
             /\ UNCHANGED <<jobs_status, active_jobs>>
        ELSE JobFails(t, DownloadError(file_type))
    /\ UNCHANGED <<temp_files, resp>>

\* Variant: the body goes on to the encoder as soon as one download has
\* returned, without waiting for the other.
AfterDownload_SkipAudio(t, file_type) ==
    LET job_id == tasks[t].job_id
        path == Some(TempPath(job_id, file_type))
    IN  /\ jobs_status' = [jobs_status EXCEPT ![job_id].progress = 50,
                                              ![job_id].message = "Processing video"]
        /\ tasks' = IF file_type = "video"
                    THEN [tasks EXCEPT ![t].video_path = path, ![t].pc = "encode",
                                       ![t].cmd = Some(EncoderArgs(tasks[t].request[1].quality))]
                    ELSE [tasks EXCEPT ![t].audio_path = path, ![t].pc = "encode",
                                       ![t].cmd = Some(EncoderArgs(tasks[t].request[1].quality))]
        /\ running' = Idle

\* What process_render_job does with the path a download returned, up to its
\* next suspension or blocking call.
\*   video: progress = 30, then download_file_async(audio) up to requests.get
\*   audio: progress = 50, message, then render_video up to the await of
\*          asyncio.create_subprocess_exec
AfterDownload(t, file_type) ==
    LET job_id == tasks[t].job_id
        path == Some(TempPath(job_id, file_type))
    IN  IF file_type = "video"
        THEN /\ jobs_status' = [jobs_status EXCEPT ![job_id].progress = 30]
             /\ tasks' = [tasks EXCEPT ![t].video_path = path, ![t].pc = "get_audio"]
             /\ running' = t
        ELSE /\ jobs_status' = [jobs_status EXCEPT ![job_id].progress = 50,
                                                   ![job_id].message = "Processing video"]
             /\ tasks' = [tasks EXCEPT ![t].audio_path = path, ![t].pc = "encode",
                                       ![t].cmd = Some(EncoderArgs(tasks[t].request[1].quality))]
             /\ running' = Idle

\* async with aiofiles.open(file_path, 'wb') as f: ... await f.write(chunk).
\* The file operations run in a thread pool and the coroutine is suspended
\* while they do (the reads of response.iter_content between two writes are
\* folded into this step).  The file exists once it was opened, whether or
\* not the streaming then fails.
download_file_async_write(t, file_type) ==
    /\ tasks[t].pc = WritePc(file_type)
    /\ LoopFree
    /\ \E ok \in BOOLEAN, opened \in BOOLEAN :
        /\ ok => opened
        /\ temp_files' = IF opened
                         THEN temp_files \cup {TempPath(tasks[t].job_id, file_type)}
                         ELSE temp_files
        /\ IF ok
           THEN /\ AfterDownload(t, file_type)
                /\ UNCHANGED active_jobs
           ELSE JobFails(t, DownloadError(file_type))
    /\ UNCHANGED resp

\* Variant: the exit code alone decides.
RenderError_NoExistCheck(returncode, output_exists) ==
    IF returncode # 0 THEN Some("FFmpeg rendering failed: stderr") ELSE None

\* The checks render_video makes once process.communicate() returned: the
\* message of the exception it raises, or None when it returns output_file.
RenderError(returncode, output_exists) ==
    IF returncode # 0 THEN Some("FFmpeg rendering failed: stderr")
    ELSE IF ~output_exists THEN Some("Output file was not created")
    ELSE None

\* try: if path and path.exists(): path.unlink()  except: logger.warning.
\* `stuck` are the files whose unlink raises.
cleanup_temp_files(files, file_paths, stuck) ==
    (files \ file_paths) \cup (files \cap file_paths \cap stuck)

\* The event loop reads the end of the encoder process started by
\* asyncio.create_subprocess_exec: process.communicate() has its result.  The
\* loop does so in an iteration of its own, hence not while a blocking call
\* holds it.  The process ends with any exit code and leaves a file at the
\* output path or none (a file of an earlier render of the same name counts:
\* os.path.exists does not tell them apart).
ffmpeg_exit(t) ==
    /\ tasks[t].pc = "encode"
    /\ LoopFree
    /\ \E returncode \in {0, 1}, output_exists \in BOOLEAN :
        tasks' = [tasks EXCEPT ![t].returncode = Some(returncode),
                               ![t].output_exists = Some(output_exists),
                               ![t].pc = "encoded"]
    /\ UNCHANGED <<jobs_status, active_jobs, running, temp_files, resp>>

\* Variant: the error of an unlink leaves cleanup_temp_files.
CleanupRaises_Propagates(stuck) == stuck # {}

\* The except clause inside cleanup_temp_files catches the error of an
\* unlink: none leaves the function.
CleanupRaises(stuck) == FALSE

\* The task resumes from the await in render_video with the encoder's exit
\* code; the rest of the body runs without a further suspension: the checks
\* of render_video, progress 90, the completed update, cleanup_temp_files
\* and the finally clause.
render_video(t) ==
    /\ tasks[t].pc = "encoded"
    /\ LoopFree
    /\ LET job_id == tasks[t].job_id
           err == RenderError(tasks[t].returncode[1], tasks[t].output_exists[1])
           paths == {tasks[t].video_path[1], tasks[t].audio_path[1]}
       IN  IF err # None
           THEN /\ JobFails(t, err[1])
                /\ UNCHANGED temp_files
           ELSE \E stuck \in SUBSET paths :
                /\ jobs_status' = [jobs_status EXCEPT ![job_id] =
                      IF CleanupRaises(stuck)
                      THEN FailedRecord(CompletedRecord(@, OutputName(job_id)), "unlink")
                      ELSE CompletedRecord(@, OutputName(job_id))]
                /\ temp_files' = cleanup_temp_files(temp_files, paths, stuck)
                /\ active_jobs' = Release(active_jobs)
                /\ tasks' = [tasks EXCEPT ![t] = Returned(@)]
                /\ running' = Idle
    /\ UNCHANGED resp

\* Submissions and job bodies: every step that writes jobs_status,
\* active_jobs or TEMP_DIR.
Next ==
    \/ \E quality_field \in {None} : create_render_job(quality_field)
    \/ send_response
    \/ \E t \in TaskIds : process_render_job(t)
    \/ \E t \in TaskIds, file_type \in FileTypes : download_file_async_get(t, file_type)
    \/ \E t \in TaskIds, file_type \in FileTypes : download_file_async_write(t, file_type)
    \/ \E t \in TaskIds : ffmpeg_exit(t)
    \/ \E t \in TaskIds : render_video(t)

Spec == Init /\ [][Next]_vars

\* The same with the handlers GET /status/{job_id} and GET /jobs, over
\* MaxHttpTasks submissions.
NextHttp ==
    \/ \E quality_field \in {None} :
          create_render_job(quality_field) /\ Len(tasks') <= MaxHttpTasks
    \/ send_response
    \/ \E t \in TaskIds : process_render_job(t)
    \/ \E t \in TaskIds, file_type \in FileTypes : download_file_async_get(t, file_type)
    \/ \E t \in TaskIds, file_type \in FileTypes : download_file_async_write(t, file_type)
    \/ \E t \in TaskIds : ffmpeg_exit(t)
    \/ \E t \in TaskIds : render_video(t)
    \/ \E job_id \in JobIds : get_job_status(job_id)
    \/ list_jobs

SpecHttp == Init /\ [][NextHttp]_vars

\* Submissions with every kind of quality field, over MaxQualityTasks
\* submissions.
NextQuality ==
    \/ \E quality_field \in QualityFields :
          create_render_job(quality_field) /\ Len(tasks') <= MaxQualityTasks
    \/ send_response
    \/ \E t \in TaskIds : process_render_job(t)
    \/ \E t \in TaskIds, file_type \in FileTypes : download_file_async_get(t, file_type)
    \/ \E t \in TaskIds, file_type \in FileTypes : download_file_async_write(t, file_type)
    \/ \E t \in TaskIds : ffmpeg_exit(t)
    \/ \E t \in TaskIds : render_video(t)

SpecQuality == Init /\ [][NextQuality]_vars

\* The steps of the job body of task t.
TaskStep(t) ==
    /\ t \in TaskIds
    /\ \/ process_render_job(t)
       \/ \E file_type \in FileTypes : download_file_async_get(t, file_type)
       \/ \E file_type \in FileTypes : download_file_async_write(t, file_type)
       \/ ffmpeg_exit(t)
       \/ render_video(t)

\* Scheduling.  The event loop keeps its ready callbacks in a FIFO queue: a
\* task that is ready again and again gets its turn however many handler
\* calls arrive (strong fairness of each task's steps); requests.get returns
\* within its timeout of 60 s, and the file writes and the encoder process
\* are taken to end.  A response that a handler returned is sent.  Nothing
\* obliges a client to submit.
NextFair ==
    \/ \E quality_field \in {None} :
          create_render_job(quality_field) /\ Len(tasks') <= MaxFairTasks
    \/ send_response
    \/ \E t \in TaskIds : process_render_job(t)
    \/ \E t \in TaskIds, file_type \in FileTypes : download_file_async_get(t, file_type)
    \/ \E t \in TaskIds, file_type \in FileTypes : download_file_async_write(t, file_type)
    \/ \E t \in TaskIds : ffmpeg_exit(t)
    \/ \E t \in TaskIds : render_video(t)

SpecFair ==
    /\ Init
    /\ [][NextFair]_vars
    /\ WF_vars(send_response)
    /\ \A t \in 1..MaxFairTasks : SF_vars(TaskStep(t))


\* ------------------------------------------------------------------------
\* Properties
\* ------------------------------------------------------------------------

Unfinished == {t \in TaskIds : tasks[t].pc # "done"}

OpenRecords == {k \in DOMAIN jobs_status : jobs_status[k].status \in {"pending", "processing"}}

\* C1: the number of admitted jobs whose body has not finished, the number
\* of records still pending or processing, and active_jobs never exceed
\* MAX_CONCURRENT_JOBS.
C1_ConcurrencyCap ==
    /\ active_jobs <= MAX_CONCURRENT_JOBS
    /\ Cardinality(Unfinished) <= MAX_CONCURRENT_JOBS
    /\ Cardinality(OpenRecords) <= MAX_CONCURRENT_JOBS

\* Every slot is taken again after an earlier job finished and its slot was
\* given to a later submission.
C1_Witness ==
    /\ Len(tasks) > MAX_CONCURRENT_JOBS
    /\ active_jobs = MAX_CONCURRENT_JOBS
    /\ Cardinality(Unfinished) = MAX_CONCURRENT_JOBS
    /\ Cardinality(OpenRecords) = MAX_CONCURRENT_JOBS

\* C2: a POST /render handled while active_jobs >= MAX_CONCURRENT_JOBS
\* answers 429 and leaves the registry, the counter, the scheduled tasks and
\* everything else untouched.
C2_RejectionChangesNothing ==
    [][(resp = NoResp /\ resp'.op = "render" /\ active_jobs >= MAX_CONCURRENT_JOBS)
        => /\ resp'.code = 429
           /\ UNCHANGED <<jobs_status, active_jobs, tasks, running, temp_files>>]_vars

C2_Witness ==
    /\ resp.op = "render"
    /\ resp.code = 429
    /\ active_jobs = MAX_CONCURRENT_JOBS

\* C3: a POST /render handled while active_jobs < MAX_CONCURRENT_JOBS
\* answers 200 with an identifier whose record is pending with progress 0,
\* the counter has grown by exactly 1, and the job body, scheduled last, has
\* not run a step.
C3_AdmissionSucceeds ==
    [][(resp = NoResp /\ resp'.op = "render" /\ active_jobs < MAX_CONCURRENT_JOBS)
        => /\ resp'.code = 200
           /\ resp'.body[1] \in DOMAIN jobs_status'
           /\ jobs_status'[resp'.body[1]].status = "pending"
           /\ jobs_status'[resp'.body[1]].progress = 0
           /\ active_jobs' = active_jobs + 1
           /\ Len(tasks') = Len(tasks) + 1
           /\ tasks'[Len(tasks')].job_id = resp'.body[1]
           /\ tasks'[Len(tasks')].pc = "scheduled"]_vars

C3_Witness ==
    /\ resp.op = "render"
    /\ resp.code = 200
    /\ active_jobs = MAX_CONCURRENT_JOBS
    /\ jobs_status[resp.body[1]].status = "pending"
    /\ tasks[Len(tasks)].pc = "scheduled"

\* C4: the identifier of an accepted submission is not yet a key of the
\* registry.
C4_FreshIdentifier ==
    [][(resp'.op = "render" /\ resp'.code = 200)
        => resp'.body[1] \notin DOMAIN jobs_status]_vars

StatusMoves ==
    {<<"pending", "processing">>, <<"processing", "completed">>, <<"processing", "failed">>}

\* C5: the status of a record changes only pending -> processing,
\* processing -> completed or processing -> failed.
C5_StatusOneWay ==
    [][\A k \in DOMAIN jobs_status :
          jobs_status'[k].status # jobs_status[k].status
              => <<jobs_status[k].status, jobs_status'[k].status>> \in StatusMoves]_vars

\* C6: the progress of a record never decreases, a completed record has
\* progress 100 and a failed record has progress below 100.
C6_Progress ==
    /\ [](\A k \in DOMAIN jobs_status :
            /\ jobs_status[k].status = "completed" => jobs_status[k].progress = 100
            /\ jobs_status[k].status = "failed" => jobs_status[k].progress < 100)
    /\ [][\A k \in DOMAIN jobs_status :
            jobs_status'[k].progress >= jobs_status[k].progress]_vars

\* C7: completed_at is set exactly on completed and failed records; a
\* completed record has an output_file and no error, a failed record an
\* error and no output_file, a pending or processing record none of them.
C7_TerminalFields ==
    \A k \in DOMAIN jobs_status :
        LET r == jobs_status[k]
        IN  /\ (r.completed_at # None) <=> (r.status \in {"completed", "failed"})
            /\ r.status = "completed" => (r.output_file # None /\ r.error = None)
            /\ r.status = "failed" => (r.error # None /\ r.error[1] # "" /\ r.output_file = None)
            /\ r.status \in {"pending", "processing"}
                  => (r.output_file = None /\ r.error = None)

\* C8: whenever a handler can run, active_jobs is non-negative and equals
\* the number of records with status pending or processing.
C8_CounterAccuracy ==
    running = Idle
        => /\ active_jobs >= 0
           /\ active_jobs = Cardinality(OpenRecords)

InStep(t) ==
    tasks[t].pc \in {"get_video", "write_video", "get_audio", "write_audio", "encode"}

\* C9: while a job body is in its download-video, download-audio or encode
\* step, the status handler can run (once the previous response is sent).
C9_ServingNotBlocked ==
    \A t \in TaskIds :
        (InStep(t) /\ resp = NoResp)
            => ENABLED (\E job_id \in JobIds : get_job_status(job_id))

\* C10: a job body is in the audio download only with the video path bound,
\* in the encoder only with both paths bound, and it marks its record
\* completed only on return from the encoder.
C10_StepOrder ==
    /\ [](\A t \in TaskIds :
            /\ tasks[t].pc \in {"get_audio", "write_audio"}
                  => (tasks[t].video_path # None /\ tasks[t].audio_path = None)
            /\ tasks[t].pc \in {"scheduled", "get_video", "write_video"}
                  => (tasks[t].video_path = None /\ tasks[t].audio_path = None)
            /\ tasks[t].pc \in {"encode", "encoded"}
                  => (tasks[t].video_path # None /\ tasks[t].audio_path # None))
    /\ [][\A t \in TaskIds :
            (tasks[t].pc # "done" /\ tasks'[t].pc = "done"
                /\ jobs_status'[tasks[t].job_id].status = "completed")
              => (tasks[t].pc = "encoded" /\ tasks[t].returncode = Some(0))]_vars

\* The job admitted second has completed while the job admitted first is
\* still in the encoder: completion order is not admission order.
C10_Witness ==
    /\ Len(tasks) = 2
    /\ tasks[1].pc = "encode"
    /\ tasks[2].pc = "done"
    /\ \E k \in DOMAIN jobs_status :
          k # tasks[1].job_id /\ jobs_status[k].status = "completed"


\* The positions of a job body in the order the code goes through them.
StepOrder ==
    <<"scheduled", "get_video", "write_video", "get_audio", "write_audio",
      "encode", "encoded", "done">>

PcRank(pc) == CHOOSE i \in 1..Len(StepOrder) : StepOrder[i] = pc

\* Task t takes a step.
Steps(t) == tasks'[t] # tasks[t]

\* C11: a job body only moves to the next position or, on a failure,
\* straight to its end: no step is entered twice and none is entered after
\* a failure.  A body that ends anywhere but on the encoder's success leaves
\* its record failed with error and completed_at set, and a body that has
\* ended takes no further step.
C11_NoRetryFailureTerminal ==
    [][\A t \in TaskIds :
          /\ Steps(t) =>
                \/ PcRank(tasks'[t].pc) = PcRank(tasks[t].pc) + 1
                \/ tasks'[t].pc = "done"
          /\ tasks[t].pc = "done" => ~Steps(t)
          /\ (Steps(t) /\ tasks'[t].pc = "done")
                => LET r == jobs_status'[tasks[t].job_id]
                   IN  \/ /\ tasks[t].pc = "encoded"
                          /\ r.status = "completed"
                       \/ /\ r.status = "failed"
                          /\ r.error # None
                          /\ r.completed_at # None]_vars

\* The only job failed in its video download: its body has ended, the record
\* is failed and no audio was ever written.
C11_Witness ==
    /\ Len(tasks) = 1
    /\ tasks[1].pc = "done"
    /\ \E k \in DOMAIN jobs_status :
          /\ jobs_status[k].status = "failed"
          /\ jobs_status[k].error = Some(DownloadError("video"))
          /\ jobs_status[k].completed_at # None
          /\ TempPath(k, "audio") \notin temp_files

C13_CompletedRecordFrozen ==
    [][\A k \in DOMAIN jobs_status :
          jobs_status[k].status = "completed" => jobs_status'[k] = jobs_status[k]]_vars

\* C14: GET /status/{job_id} for an identifier that is not a key of
\* jobs_status answers 404 (and 200 with the record otherwise), and GET
\* /status and GET /jobs, whatever they answer, leave jobs_status, active_jobs
\* and everything but the response unchanged: a failed lookup creates no
\* record.
C14_QueriesReadOnly ==
    [][(resp = NoResp /\ resp'.op \in {"status", "list"})
        => /\ UNCHANGED <<jobs_status, active_jobs, tasks, running, temp_files>>
           /\ resp'.op = "status"
                => IF resp'.job_id \in DOMAIN jobs_status
                   THEN /\ resp'.code = 200
                        /\ resp'.body = <<jobs_status[resp'.job_id]>>
                   ELSE /\ resp'.code = 404
                        /\ resp'.body = <<>>]_vars

C14_Witness ==
    /\ resp.op = "status"
    /\ resp.code = 404
    /\ resp.job_id \notin DOMAIN jobs_status
    /\ DOMAIN jobs_status # {}
    /\ active_jobs > 0

\* A step that accepted a submission, and the task it scheduled.
Accepts == Len(tasks') = Len(tasks) + 1
Accepted == tasks'[Len(tasks')]
Omitted(task) == task.request # None /\ "quality" \notin task.request[1].fields_set

\* C15 as stated: a request without a quality field is treated as tier
\* medium: the record created for it has quality medium and the encoder is
\* started with the medium arguments.
C15_DefaultMedium ==
    /\ [][(Accepts /\ Omitted(Accepted))
            => /\ Accepted.request[1].quality = "medium"
               /\ jobs_status'[Accepted.job_id].quality = "medium"]_vars
    /\ [](\A t \in TaskIds :
            (Omitted(tasks[t]) /\ tasks[t].cmd # None)
                => tasks[t].cmd = Some(quality_settings["medium"]))

\* C15 as the code has it: a request without a quality field is treated as
\* tier high: the record created for it has quality high and the encoder is
\* started with the high arguments (-crf 18 -preset medium).
C15_DefaultHigh ==
    /\ [][(Accepts /\ Omitted(Accepted))
            => /\ Accepted.request[1].quality = "high"
               /\ jobs_status'[Accepted.job_id].quality = "high"]_vars
    /\ [](\A t \in TaskIds :
            (Omitted(tasks[t]) /\ tasks[t].cmd # None)
                => tasks[t].cmd = Some(quality_settings["high"]))

C15_Witness ==
    \E t \in TaskIds :
        /\ Omitted(tasks[t])
        /\ tasks[t].pc = "encode"
        /\ tasks[t].cmd = Some(<<"-crf", "18", "-preset", "medium">>)
        /\ jobs_status[tasks[t].job_id].quality = "high"

\* The body of the t-th accepted job has returned.
Finished(t) == IF t \in TaskIds THEN tasks[t].pc = "done" ELSE FALSE

\* The record under job_id has a final status.
Terminal(job_id) ==
    IF job_id \in DOMAIN jobs_status
    THEN jobs_status[job_id].status \in {"completed", "failed"}
    ELSE FALSE

\* C16: with the scheduling of SpecFair, from some point on every accepted
\* job body has returned, every record of the registry has status completed
\* or failed, and active_jobs is 0: no job stays pending or processing for
\* ever and every slot is released.
C16_EveryJobFinishes ==
    <>[](/\ \A t \in TaskIds : Finished(t)
         /\ \A job_id \in DOMAIN jobs_status : Terminal(job_id)
         /\ active_jobs = 0)

C16_Witness ==
    /\ Len(tasks) = MaxFairTasks
    /\ \A t \in TaskIds : tasks[t].pc = "done"
    /\ active_jobs = 0
    /\ \E job_id \in DOMAIN jobs_status : jobs_status[job_id].status = "completed"
    /\ \E job_id \in DOMAIN jobs_status : jobs_status[job_id].status = "failed"

\* Task t resumes with the result of the encoder, which was a zero exit code
\* with the output file in place or not.
AfterEncoder(t) == tasks[t].pc = "encoded" /\ Steps(t)
EncoderOk(t) == tasks[t].returncode = Some(0) /\ tasks[t].output_exists = Some(TRUE)
TaskPaths(t) ==
    {tasks[t].video_path[i] : i \in DOMAIN tasks[t].video_path}
        \cup {tasks[t].audio_path[i] : i \in DOMAIN tasks[t].audio_path}

\* C17: a record becomes completed only in the step of a job body that
\* found exit code 0 and the output file in place; with a non-zero exit
\* code, or exit code 0 and no output file, the step makes the record failed
\* (with an error, and output_file as it was); and output_file of a completed
\* record is render_{job_id}.mp4 for the record's own key.
C17_CompletedOnlyIfEncoded ==
    /\ [][\A t \in TaskIds :
            AfterEncoder(t)
              => LET job_id == tasks[t].job_id
                 IN  IF EncoderOk(t)
                     THEN /\ jobs_status'[job_id].status = "completed"
                          /\ jobs_status'[job_id].output_file =
                                Some(<<"render_", job_id, ".mp4">>)
                     ELSE /\ jobs_status'[job_id].status = "failed"
                          /\ jobs_status'[job_id].error # None
                          /\ jobs_status'[job_id].output_file =
                                jobs_status[job_id].output_file]_vars
    /\ [][\A job_id \in DOMAIN jobs_status :
            (/\ jobs_status[job_id].status # "completed"
             /\ jobs_status'[job_id].status = "completed")
              => \E t \in TaskIds :
                    AfterEncoder(t) /\ EncoderOk(t) /\ tasks[t].job_id = job_id]_vars
    /\ [](\A job_id \in DOMAIN jobs_status :
            jobs_status[job_id].status = "completed"
              => jobs_status[job_id].output_file = Some(<<"render_", job_id, ".mp4">>))

C17_Witness ==
    /\ \E job_id \in DOMAIN jobs_status :
          /\ jobs_status[job_id].status = "completed"
          /\ jobs_status[job_id].output_file = Some(<<"render_", job_id, ".mp4">>)
    /\ \E job_id \in DOMAIN jobs_status :
          /\ jobs_status[job_id].status = "failed"
          /\ jobs_status[job_id].error = Some("Output file was not created")

\* C18: temporary files are removed only by the step that marks the record
\* completed, and whichever of the two files cannot be deleted, that step
\* leaves the record completed with progress 100, its output_file and the
\* error field as it was, decrements active_jobs and ends the job body.
C18_CleanupBestEffort ==
    /\ [][\A t \in TaskIds :
            (AfterEncoder(t) /\ EncoderOk(t))
              => LET job_id == tasks[t].job_id
                 IN  /\ jobs_status'[job_id].status = "completed"
                     /\ jobs_status'[job_id].progress = 100
                     /\ jobs_status'[job_id].output_file = Some(OutputName(job_id))
                     /\ jobs_status'[job_id].error = jobs_status[job_id].error
                     /\ active_jobs' = active_jobs - 1
                     /\ tasks'[t].pc = "done"
                     /\ temp_files' \subseteq temp_files
                     /\ (temp_files \ temp_files') \subseteq TaskPaths(t)]_vars
    /\ [][~(temp_files \subseteq temp_files')
            => \E t \in TaskIds :
                  /\ AfterEncoder(t) /\ EncoderOk(t)
                  /\ jobs_status'[tasks[t].job_id].status = "completed"]_vars

\* One job was accepted, its record is completed and without error, the
\* counter is back to 0, and a temporary file of it is still there: its
\* unlink failed.
C18_Witness ==
    /\ Len(tasks) = 1
    /\ tasks[1].pc = "done"
    /\ active_jobs = 0
    /\ temp_files # {}
    /\ \E job_id \in DOMAIN jobs_status :
          /\ jobs_status[job_id].status = "completed"
          /\ jobs_status[job_id].progress = 100
          /\ jobs_status[job_id].error = None
          /\ <<job_id, "video">> \in temp_files

\* C19: a job body that ends in failure leaves every temporary file in
\* place, the ones it had downloaded are there when it ends, and a
\* temporary file is removed by no step but the one that completes a job,
\* which removes only the files that job downloaded.
C19_FailedJobKeepsTempFiles ==
    /\ [][\A t \in TaskIds :
            (/\ Steps(t)
             /\ tasks'[t].pc = "done"
             /\ jobs_status'[tasks[t].job_id].status = "failed")
              => /\ temp_files \subseteq temp_files'
                 /\ TaskPaths(t) \subseteq temp_files']_vars
    /\ [][~(temp_files \subseteq temp_files')
            => \E t \in TaskIds :
                  /\ AfterEncoder(t) /\ EncoderOk(t)
                  /\ (temp_files \ temp_files') \subseteq TaskPaths(t)]_vars

====
